---------------------------- MODULE Spec2Model ----------------------------
(***************************************************************************)
(* Model of drivers/staging/zram/zram_comp.c: the zram compression         *)
(* frontend.  One management thread creates a backend by name              *)
(* (zcomp_create), whose constructor initialises the default workmem       *)
(* policy (wm_policy_init), and later destroys it (zcomp_destroy).  While  *)
(* the backend is live a fixed set of I/O callers interleave               *)
(* wm_policy_workmem_get and wm_policy_workmem_put, one statement group    *)
(* at a time.  Shared memory is sequentially consistent.                   *)
(* zcomp_available_show is modelled with the management thread (ShowSpec). *)
(***************************************************************************)
EXTENDS Integers, Sequences, FiniteSets, TLC

\* ------------------------------------------------------------------ bounds
NumCallers == 3        \* concurrent callers of get/put

Callers == 1..NumCallers
NULL == "NULL"

\* A zram_comp that is not allocated.
NoComp == [name |-> <<>>, create |-> NULL, destroy |-> NULL]

\* -------------------------------------------------------- the registry
\* Names are sequences of characters, so that comparing them is computed.
lzo == <<"l", "z", "o">>
lz4 == <<"l", "z", "4">>

\* compressors[] with both backends compiled in; the {} sentinel is the
\* index Len(compressors) + 1.
compressors ==
    << [name |-> lzo, create |-> "zcomp_lzo_create", destroy |-> "zcomp_lzo_destroy"],
       [name |-> lz4, create |-> "zcomp_lz4_create", destroy |-> "zcomp_lz4_destroy"] >>

\* The algorithm names a caller may pass to zcomp_create.
Names ==
    { lzo, lz4,
      <<"l", "z", "4", "\n">>, <<"l", "z", "o", "\n", "\n">>,
      <<"L", "Z", "O">>, <<"l", "z", "o", " ">>,
      <<"l", "z">>, <<"l", "z", "o", "x">>, <<"\n">>, <<>> }

\* A comparison that takes no trailing newline into account (strcmp).
streq_exact(s1, s2) == s1 = s2

\* sysfs_streq: the strings are equal, or equal but for one trailing
\* newline in either.  The walk stops at the first difference or at the
\* end of s1.
RECURSIVE sysfs_streq(_, _)
sysfs_streq(s1, s2) ==
    IF s1 # <<>> /\ s2 # <<>> /\ Head(s1) = Head(s2)
    THEN sysfs_streq(Tail(s1), Tail(s2))
    ELSE \/ s1 = <<>> /\ s2 = <<>>
         \/ s1 = <<>> /\ s2 = <<"\n">>
         \/ s1 = <<"\n">> /\ s2 = <<>>

\* The loop of zcomp_create: the first index whose name matches, or the
\* sentinel's index.
RECURSIVE zcomp_lookup(_, _)
zcomp_lookup(compress, i) ==
    IF i > Len(compressors) THEN i
    ELSE IF sysfs_streq(compress, compressors[i].name) THEN i
    ELSE zcomp_lookup(compress, i + 1)

\* ------------------------------------------------------------ the heap
\* The regions this file allocates: the zram_comp handle, the workmem
\* descriptor and its two buffers.  "none" is a NULL pointer.
Regions == {"comp", "wm", "mem", "buf"}

\* kfree / vfree: a NULL pointer is left alone, a freed region freed again
\* is a double free.
Free(a, r) ==
    [a EXCEPT ![r] = CASE a[r] = "live" -> "freed"
                       [] a[r] = "freed" -> "double"
                       [] OTHER -> a[r]]

\* kmalloc / vmalloc / kzalloc: a fresh region, or NULL.
Alloc(a, r, ok) == [a EXCEPT ![r] = IF ok THEN "live" ELSE "none"]

Outstanding(a) == Cardinality({r \in Regions : a[r] = "live"})

\* workmem_free without the vfree of the output buffer.
workmem_free_no_buf(a) == Free(Free(a, "mem"), "wm")

workmem_free(a) == Free(Free(Free(a, "buf"), "mem"), "wm")

\* workmem_alloc that tests only ->mem at line 72.
workmem_alloc_mem_only(a, okWm, okMem, okBuf) ==
    IF ~okWm THEN [heap |-> Alloc(a, "wm", FALSE), ret |-> NULL]
    ELSE LET a3 == Alloc(Alloc(Alloc(a, "wm", TRUE), "mem", okMem), "buf", okBuf)
         IN  IF ~okMem
             THEN [heap |-> workmem_free(a3), ret |-> NULL]
             ELSE [heap |-> a3, ret |-> "wm"]

\* workmem_alloc: the heap after the call and the pointer returned.
workmem_alloc(a, okWm, okMem, okBuf) ==
    IF ~okWm THEN [heap |-> Alloc(a, "wm", FALSE), ret |-> NULL]
    ELSE LET a3 == Alloc(Alloc(Alloc(a, "wm", TRUE), "mem", okMem), "buf", okBuf)
         IN  IF ~okMem \/ ~okBuf
             THEN [heap |-> workmem_free(a3), ret |-> NULL]
             ELSE [heap |-> a3, ret |-> "wm"]

VARIABLES
    mpc,            \* position of the management thread
    req,            \* name passed to zcomp_create
    comp,           \* the zram_comp handle (NoComp: none allocated)
    zret,           \* what zcomp_create returned: NULL, "comp", or "-" (none yet)
    inCreate,       \* zcomp_destroy was entered from zcomp_create's error path
    initRet,        \* what wm_policy_init returned: "0", "-EINVAL", or "-"
    ctorCalls,      \* calls of comp->create during the current zcomp_create
    dtorCalls,      \* calls of comp->destroy on the current handle
    base,           \* outstanding allocations when zcomp_create was entered
    failed,         \* the allocations that failed in the last wm_policy_init
    alloc,          \* the heap: region -> "none" | "live" | "freed" | "double"
    pressure,       \* memory pressure: every allocation fails
    buffer_lock,    \* policy->buffer_lock: its holder, or 0 when free
    idle_workmem,   \* policy->idle_workmem, head first
    workmem_wait,   \* policy->workmem_wait: the queued callers, head first
    pc,             \* position of each caller
    wm,             \* each caller's unit (the local wm / the put argument)
    tstate,         \* each caller's task state
    issued,         \* a unit has been handed out since wm_policy_init
    called,         \* in a one-shot run: the caller has made its call of get
    oneShot,        \* the run lets each caller call get once only
    showArg,        \* the comp the last zcomp_available_show was given
    showBuf,        \* the text the last zcomp_available_show wrote to buf
    showRet         \* what it returned (0: not called yet)

mvars == <<mpc, req, comp, zret, inCreate, initRet, ctorCalls, dtorCalls, base,
          failed>>
pvars == <<buffer_lock, idle_workmem, workmem_wait>>
cvars == <<pc, wm, tstate, issued, called>>
svars == <<showArg, showBuf, showRet>>
vars == <<mvars, alloc, pressure, pvars, cvars, oneShot, svars>>

InitCommon ==
    /\ mpc = "idle"
    /\ req = <<>>
    /\ comp = NoComp
    /\ zret = "-"
    /\ inCreate = FALSE
    /\ initRet = "-"
    /\ ctorCalls = 0
    /\ dtorCalls = 0
    /\ base = 0
    /\ failed = {}
    /\ alloc = [r \in Regions |-> "none"]
    /\ pressure = FALSE
    /\ buffer_lock = 0
    /\ idle_workmem = <<>>
    /\ workmem_wait = <<>>
    /\ pc = [c \in Callers |-> "out"]
    /\ wm = [c \in Callers |-> NULL]
    /\ tstate = [c \in Callers |-> "RUNNING"]
    /\ issued = FALSE
    /\ called = [c \in Callers |-> FALSE]
    /\ showArg = NoComp
    /\ showBuf = <<>>
    /\ showRet = 0

Init == InitCommon /\ oneShot = FALSE

\* The backend is created and not yet being destroyed: get/put may run.
Live == mpc = "returned" /\ zret = "comp"

\* ------------------------------------------------- the management thread
\* Memory pressure sets in: from now on every allocation fails.
MemoryPressure ==
    /\ ~pressure
    /\ pressure' = TRUE
    /\ UNCHANGED <<mvars, alloc, pvars, cvars, oneShot, svars>>

\* zcomp_create that allocates the handle before the lookup and returns
\* NULL on an unknown name without freeing it.
zcomp_create_lookup_leak ==
    /\ mpc = "idle"
    /\ \E name \in Names :
        /\ req' = name
        /\ IF zcomp_lookup(name, 1) = Len(compressors) + 1
           THEN mpc' = "returned" /\ zret' = NULL
                /\ alloc' = Alloc(alloc, "comp", TRUE)
           ELSE mpc' = "kzalloc" /\ zret' = "-" /\ alloc' = alloc
    /\ base' = Outstanding(alloc)
    /\ ctorCalls' = 0
    /\ dtorCalls' = 0
    /\ initRet' = "-"
    /\ failed' = {}
    /\ UNCHANGED <<comp, inCreate, pressure, pvars, cvars, oneShot, svars>>

\* zcomp_create, lines 161-174: the lookup; nothing found returns NULL.
zcomp_create_lookup ==
    /\ mpc = "idle"
    /\ \E name \in Names :
        /\ req' = name
        /\ IF zcomp_lookup(name, 1) = Len(compressors) + 1
           THEN mpc' = "returned" /\ zret' = NULL
           ELSE mpc' = "kzalloc" /\ zret' = "-"
    /\ base' = Outstanding(alloc)
    /\ ctorCalls' = 0
    /\ dtorCalls' = 0
    /\ initRet' = "-"
    /\ failed' = {}
    /\ UNCHANGED <<comp, inCreate, alloc, pressure, pvars, cvars, oneShot, svars>>

\* zcomp_create that copies the first table entry into the handle, whatever
\* entry the lookup stopped at.
zcomp_create_kzalloc_first ==
    /\ mpc = "kzalloc"
    /\ \E ok \in {b \in BOOLEAN : pressure => ~b} :
        /\ alloc' = Alloc(alloc, "comp", ok)
        /\ IF ok
           THEN LET e == compressors[1]
                IN  /\ comp' = [name |-> e.name, create |-> e.create,
                                destroy |-> e.destroy]
                    /\ mpc' = "ctor"
                    /\ zret' = zret
           ELSE /\ comp' = NoComp
                /\ mpc' = "returned"
                /\ zret' = NULL
    /\ UNCHANGED <<req, inCreate, initRet, ctorCalls, dtorCalls, base, failed,
                   pressure, pvars, cvars, oneShot, svars>>

\* zcomp_create, lines 176-182: allocate the handle and copy the entry in.
zcomp_create_kzalloc ==
    /\ mpc = "kzalloc"
    /\ \E ok \in {b \in BOOLEAN : pressure => ~b} :
        /\ alloc' = Alloc(alloc, "comp", ok)
        /\ IF ok
           THEN LET e == compressors[zcomp_lookup(req, 1)]
                IN  /\ comp' = [name |-> e.name, create |-> e.create,
                                destroy |-> e.destroy]
                    /\ mpc' = "ctor"
                    /\ zret' = zret
           ELSE /\ comp' = NoComp
                /\ mpc' = "returned"
                /\ zret' = NULL
    /\ UNCHANGED <<req, inCreate, initRet, ctorCalls, dtorCalls, base, failed,
                   pressure, pvars, cvars, oneShot, svars>>

\* wm_policy_init without the list_add_tail of line 135.
wm_policy_init_no_add(okWm, okMem, okBuf) ==
    LET r == workmem_alloc(alloc, okWm, okMem, okBuf)
    IN  /\ buffer_lock' = 0
        /\ workmem_wait' = <<>>
        /\ alloc' = r.heap
        /\ failed' = IF ~okWm THEN {"wm"}
                     ELSE {x \in {"mem", "buf"} : (x = "mem" /\ ~okMem)
                                                  \/ (x = "buf" /\ ~okBuf)}
        /\ idle_workmem' = <<>>
        /\ initRet' = IF r.ret = NULL THEN "-EINVAL" ELSE "0"

\* wm_policy_init, lines 121-137, with the outcome of each allocation.
wm_policy_init(okWm, okMem, okBuf) ==
    LET r == workmem_alloc(alloc, okWm, okMem, okBuf)
    IN  /\ buffer_lock' = 0
        /\ workmem_wait' = <<>>
        /\ alloc' = r.heap
        /\ failed' = IF ~okWm THEN {"wm"}
                     ELSE {x \in {"mem", "buf"} : (x = "mem" /\ ~okMem)
                                                  \/ (x = "buf" /\ ~okBuf)}
        /\ IF r.ret = NULL
           THEN idle_workmem' = <<>> /\ initRet' = "-EINVAL"
           ELSE idle_workmem' = <<r.ret>> /\ initRet' = "0"

\* wm_policy_free that releases only the descriptor of an idle unit.
wm_policy_free_descriptor_only ==
    /\ idle_workmem' = <<>>
    /\ alloc' = IF idle_workmem = <<>> THEN alloc ELSE Free(alloc, "wm")

\* wm_policy_free that releases the unit whether or not it is on the idle
\* list.
wm_policy_free_all ==
    /\ idle_workmem' = <<>>
    /\ alloc' = workmem_free(alloc)

\* wm_policy_free, lines 139-148: free every idle unit.
wm_policy_free ==
    /\ idle_workmem' = <<>>
    /\ alloc' = IF idle_workmem = <<>> THEN alloc ELSE workmem_free(alloc)

\* zcomp_create, line 184: comp->create(comp).  The backend constructor
\* sets up the default policy with wm_policy_init.
zcomp_create_ctor ==
    /\ mpc = "ctor"
    /\ \E okWm, okMem, okBuf \in {b \in BOOLEAN : pressure => ~b} :
        wm_policy_init(okWm, okMem, okBuf)
    /\ ctorCalls' = ctorCalls + 1
    /\ issued' = FALSE
    /\ mpc' = "ctor_ret"
    /\ UNCHANGED <<req, comp, zret, inCreate, dtorCalls, base, pressure,
                   pc, wm, tstate, called, oneShot, svars>>

\* zcomp_create that, on a failed constructor, frees the handle without
\* calling the backend destructor.
zcomp_create_ret_kfree_only ==
    /\ mpc = "ctor_ret"
    /\ IF initRet = "0"
       THEN mpc' = "returned" /\ zret' = "comp" /\ inCreate' = FALSE
       ELSE mpc' = "kfree" /\ zret' = zret /\ inCreate' = TRUE
    /\ UNCHANGED <<req, comp, initRet, ctorCalls, dtorCalls, base, failed,
                   alloc, pressure, pvars, cvars, oneShot, svars>>

\* zcomp_create that returns NULL on a failed constructor without calling
\* zcomp_destroy.
zcomp_create_ret_no_destroy ==
    /\ mpc = "ctor_ret"
    /\ IF initRet = "0"
       THEN mpc' = "returned" /\ zret' = "comp" /\ inCreate' = FALSE
       ELSE mpc' = "returned" /\ zret' = NULL /\ inCreate' = FALSE
    /\ UNCHANGED <<req, comp, initRet, ctorCalls, dtorCalls, base, failed,
                   alloc, pressure, pvars, cvars, oneShot, svars>>

\* zcomp_create, lines 184-188: the constructor's result decides.
zcomp_create_ret ==
    /\ mpc = "ctor_ret"
    /\ IF initRet = "0"
       THEN mpc' = "returned" /\ zret' = "comp" /\ inCreate' = FALSE
       ELSE mpc' = "dtor" /\ zret' = zret /\ inCreate' = TRUE
    /\ UNCHANGED <<req, comp, initRet, ctorCalls, dtorCalls, base, failed,
                   alloc, pressure, pvars, cvars, oneShot, svars>>

\* A caller of zcomp_destroy: no get or put is in progress.
zcomp_destroy_call ==
    /\ Live
    /\ \A c \in Callers : pc[c] \in {"out", "holding"}
    /\ mpc' = "dtor"
    /\ inCreate' = FALSE
    /\ UNCHANGED <<req, comp, zret, initRet, ctorCalls, dtorCalls, base, failed,
                   alloc, pressure, pvars, cvars, oneShot, svars>>

\* zcomp_destroy, line 153: comp->destroy(comp).  The backend destructor
\* releases the policy with wm_policy_free.
zcomp_destroy_dtor ==
    /\ mpc = "dtor"
    /\ wm_policy_free
    /\ dtorCalls' = dtorCalls + 1
    /\ mpc' = "kfree"
    /\ UNCHANGED <<req, comp, zret, inCreate, initRet, ctorCalls, base, failed,
                   pressure, buffer_lock, workmem_wait, cvars, oneShot, svars>>

\* zcomp_destroy, line 154: kfree(comp); then zcomp_create returns NULL
\* (line 186) or the caller of zcomp_destroy goes on.
zcomp_destroy_kfree ==
    /\ mpc = "kfree"
    /\ alloc' = Free(alloc, "comp")
    /\ comp' = NoComp
    /\ IF inCreate
       THEN mpc' = "returned" /\ zret' = NULL
       ELSE mpc' = "done" /\ zret' = zret
    /\ inCreate' = FALSE
    /\ UNCHANGED <<req, initRet, ctorCalls, dtorCalls, base, failed, pressure,
                   pvars, cvars, oneShot, svars>>

\* After a failed zcomp_create the caller may try again; the regions of the
\* failed call are gone, what it leaked stays.
zcomp_create_again ==
    /\ mpc = "returned"
    /\ zret = NULL
    /\ mpc' = "idle"
    /\ zret' = "-"
    /\ alloc' = [r \in Regions |-> IF alloc[r] = "live" THEN "live" ELSE "none"]
    /\ UNCHANGED <<req, comp, inCreate, initRet, ctorCalls, dtorCalls, base,
                   failed, pressure, pvars, cvars, oneShot, svars>>

Manage ==
    \/ MemoryPressure
    \/ zcomp_create_lookup
    \/ zcomp_create_kzalloc
    \/ zcomp_create_ctor
    \/ zcomp_create_ret
    \/ zcomp_destroy_call
    \/ zcomp_destroy_dtor
    \/ zcomp_destroy_kfree
    \/ zcomp_create_again

\* ------------------------------------------------------------ the listing
\* sprintf(buf + sz, ...): the text goes to offset sz of buf; the value is
\* the number of characters written.  b is the pair of buf and sz.
sprintf(b, text) ==
    [buf |-> SubSeq(b.buf, 1, b.sz) \o text, sz |-> b.sz + Len(text)]

\* The loop of zcomp_available_show that brackets no name.
RECURSIVE show_loop_plain(_, _, _)
show_loop_plain(c, i, b) ==
    IF i > Len(compressors) THEN b
    ELSE show_loop_plain(c, i + 1, sprintf(b, compressors[i].name \o <<" ">>))

\* The loop of zcomp_available_show, lines 196-201, from entry i on.
RECURSIVE show_loop(_, _, _)
show_loop(c, i, b) ==
    IF i > Len(compressors) THEN b
    ELSE show_loop(c, i + 1,
             IF c # NoComp /\ c.name = compressors[i].name
             THEN sprintf(b, <<"<">> \o compressors[i].name \o <<">", " ">>)
             ELSE sprintf(b, compressors[i].name \o <<" ">>))

\* zcomp_available_show: the text in buf and the value returned.
zcomp_available_show(c) ==
    sprintf(show_loop(c, 1, [buf |-> <<>>, sz |-> 0]), <<"\n">>)

\* A call of zcomp_available_show with the current handle (NULL when there
\* is none), while no zcomp_create or zcomp_destroy is running.
zcomp_available_show_call ==
    /\ mpc \in {"idle", "returned", "done"}
    /\ LET r == zcomp_available_show(comp)
       IN  /\ showArg' = comp
           /\ showBuf' = r.buf
           /\ showRet' = r.sz
    /\ UNCHANGED <<mvars, alloc, pressure, pvars, cvars, oneShot>>

\* The management thread alone, with the listing.
ShowNext == Manage \/ zcomp_available_show_call

ShowSpec == Init /\ [][ShowNext]_vars

\* ------------------------------------------------------------ the callers
GetPcs == {"get_lock", "get_locked", "get_prepare", "get_recheck",
           "get_schedule", "get_finish"}
PutPcs == {"put_lock", "put_add", "put_active", "put_wake"}

\* A caller enters wm_policy_workmem_get.
get_call(c) ==
    /\ Live
    /\ pc[c] = "out"
    /\ IF oneShot
       THEN ~called[c] /\ called' = [called EXCEPT ![c] = TRUE]
       ELSE called' = called
    /\ pc' = [pc EXCEPT ![c] = "get_lock"]
    /\ UNCHANGED <<mvars, alloc, pressure, pvars, wm, tstate, issued, oneShot, svars>>

\* get, line 87: spin_lock(&policy->buffer_lock).
get_spin_lock(c) ==
    /\ pc[c] = "get_lock"
    /\ buffer_lock = 0
    /\ buffer_lock' = c
    /\ pc' = [pc EXCEPT ![c] = "get_locked"]
    /\ UNCHANGED <<mvars, alloc, pressure, idle_workmem, workmem_wait,
                   wm, tstate, issued, called, oneShot, svars>>

\* get_locked without the list_del of line 91: the unit stays on the list.
get_locked_no_del(c) ==
    /\ pc[c] = "get_locked"
    /\ IF idle_workmem # <<>>
       THEN /\ wm' = [wm EXCEPT ![c] = Head(idle_workmem)]
            /\ issued' = TRUE
            /\ pc' = [pc EXCEPT ![c] = "holding"]
            /\ UNCHANGED idle_workmem
       ELSE /\ pc' = [pc EXCEPT ![c] = "get_prepare"]
            /\ UNCHANGED <<wm, idle_workmem, issued>>
    /\ buffer_lock' = 0
    /\ UNCHANGED <<mvars, alloc, pressure, workmem_wait, tstate, called, oneShot, svars>>

\* get_locked that gives up on an empty list: it returns NULL.
get_locked_try(c) ==
    /\ pc[c] = "get_locked"
    /\ IF idle_workmem # <<>>
       THEN /\ wm' = [wm EXCEPT ![c] = Head(idle_workmem)]
            /\ idle_workmem' = Tail(idle_workmem)
            /\ issued' = TRUE
       ELSE UNCHANGED <<wm, idle_workmem, issued>>
    /\ pc' = [pc EXCEPT ![c] = "holding"]
    /\ buffer_lock' = 0
    /\ UNCHANGED <<mvars, alloc, pressure, workmem_wait, tstate, called, oneShot, svars>>

\* get, lines 88-97, under the lock: take the head of the idle list,
\* unlock and return it; or, the list being empty, unlock and go to wait.
get_locked(c) ==
    /\ pc[c] = "get_locked"
    /\ IF idle_workmem # <<>>
       THEN /\ wm' = [wm EXCEPT ![c] = Head(idle_workmem)]
            /\ idle_workmem' = Tail(idle_workmem)
            /\ issued' = TRUE
            /\ pc' = [pc EXCEPT ![c] = "holding"]
       ELSE /\ pc' = [pc EXCEPT ![c] = "get_prepare"]
            /\ UNCHANGED <<wm, idle_workmem, issued>>
    /\ buffer_lock' = 0
    /\ UNCHANGED <<mvars, alloc, pressure, workmem_wait, tstate, called, oneShot, svars>>

\* get, line 98: prepare_to_wait_exclusive: queue at the tail, then
\* set_current_state(TASK_UNINTERRUPTIBLE).
get_prepare_to_wait(c) ==
    /\ pc[c] = "get_prepare"
    /\ workmem_wait' = Append(workmem_wait, c)
    /\ tstate' = [tstate EXCEPT ![c] = "UNINTERRUPTIBLE"]
    /\ pc' = [pc EXCEPT ![c] = "get_recheck"]
    /\ UNCHANGED <<mvars, alloc, pressure, buffer_lock, idle_workmem,
                   wm, issued, called, oneShot, svars>>

\* get_recheck without the list_empty test of line 100: always schedule().
get_recheck_always_sleep(c) ==
    /\ pc[c] = "get_recheck"
    /\ pc' = [pc EXCEPT ![c] = "get_schedule"]
    /\ UNCHANGED <<mvars, alloc, pressure, pvars, wm, tstate, issued, called,
                   oneShot, svars>>

\* get, line 100: the check of the idle list made without the lock.
get_recheck(c) ==
    /\ pc[c] = "get_recheck"
    /\ pc' = [pc EXCEPT ![c] = IF idle_workmem = <<>> THEN "get_schedule"
                                                     ELSE "get_finish"]
    /\ UNCHANGED <<mvars, alloc, pressure, pvars, wm, tstate, issued, called,
                   oneShot, svars>>

\* get, line 101: schedule() returns once the task is runnable again.
get_schedule(c) ==
    /\ pc[c] = "get_schedule"
    /\ tstate[c] = "RUNNING"
    /\ pc' = [pc EXCEPT ![c] = "get_finish"]
    /\ UNCHANGED <<mvars, alloc, pressure, pvars, wm, tstate, issued, called,
                   oneShot, svars>>

\* A get whose woken caller takes the head of the idle list right after
\* finish_wait, without the lock, when it sees a unit there.
get_finish_wait_owns(c) ==
    /\ pc[c] = "get_finish"
    /\ tstate' = [tstate EXCEPT ![c] = "RUNNING"]
    /\ workmem_wait' = SelectSeq(workmem_wait, LAMBDA w : w # c)
    /\ IF idle_workmem # <<>>
       THEN /\ wm' = [wm EXCEPT ![c] = Head(idle_workmem)]
            /\ idle_workmem' = Tail(idle_workmem)
            /\ issued' = TRUE
            /\ pc' = [pc EXCEPT ![c] = "holding"]
       ELSE /\ pc' = [pc EXCEPT ![c] = "get_lock"]
            /\ UNCHANGED <<wm, idle_workmem, issued>>
    /\ UNCHANGED <<mvars, alloc, pressure, buffer_lock, called, oneShot, svars>>

\* get, lines 102-103: finish_wait, then goto retry.
get_finish_wait(c) ==
    /\ pc[c] = "get_finish"
    /\ tstate' = [tstate EXCEPT ![c] = "RUNNING"]
    /\ workmem_wait' = SelectSeq(workmem_wait, LAMBDA w : w # c)
    /\ pc' = [pc EXCEPT ![c] = "get_lock"]
    /\ UNCHANGED <<mvars, alloc, pressure, buffer_lock, idle_workmem,
                   wm, issued, called, oneShot, svars>>

\* A caller that holds a unit enters wm_policy_workmem_put with it.
put_call(c) ==
    /\ Live
    /\ pc[c] = "holding"
    /\ pc' = [pc EXCEPT ![c] = "put_lock"]
    /\ UNCHANGED <<mvars, alloc, pressure, pvars, wm, tstate, issued, called,
                   oneShot, svars>>

\* A put that goes on to list_add_tail without taking buffer_lock.
put_spin_lock_skipped(c) ==
    /\ pc[c] = "put_lock"
    /\ pc' = [pc EXCEPT ![c] = "put_add"]
    /\ UNCHANGED <<mvars, alloc, pressure, buffer_lock, idle_workmem,
                   workmem_wait, wm, tstate, issued, called, oneShot, svars>>

\* put, line 113: spin_lock(&policy->buffer_lock).
put_spin_lock(c) ==
    /\ pc[c] = "put_lock"
    /\ buffer_lock = 0
    /\ buffer_lock' = c
    /\ pc' = [pc EXCEPT ![c] = "put_add"]
    /\ UNCHANGED <<mvars, alloc, pressure, idle_workmem, workmem_wait,
                   wm, tstate, issued, called, oneShot, svars>>

\* put_add_tail without the list_add_tail of line 114: the unit is dropped.
put_add_tail_dropped(c) ==
    /\ pc[c] = "put_add"
    /\ wm' = [wm EXCEPT ![c] = NULL]
    /\ buffer_lock' = 0
    /\ pc' = [pc EXCEPT ![c] = "put_active"]
    /\ UNCHANGED <<mvars, alloc, pressure, idle_workmem, workmem_wait, tstate,
                   issued, called, oneShot, svars>>

\* put, lines 114-115: list_add_tail under the lock, then unlock.
put_add_tail(c) ==
    /\ pc[c] = "put_add"
    /\ idle_workmem' = Append(idle_workmem, wm[c])
    /\ wm' = [wm EXCEPT ![c] = NULL]
    /\ buffer_lock' = 0
    /\ pc' = [pc EXCEPT ![c] = "put_active"]
    /\ UNCHANGED <<mvars, alloc, pressure, workmem_wait, tstate, issued,
                   called, oneShot, svars>>

\* put that returns after the unlock without looking at the wait queue.
put_waitqueue_never(c) ==
    /\ pc[c] = "put_active"
    /\ pc' = [pc EXCEPT ![c] = "out"]
    /\ UNCHANGED <<mvars, alloc, pressure, pvars, wm, tstate, issued, called,
                   oneShot, svars>>

\* put, line 117: waitqueue_active(&policy->workmem_wait).
put_waitqueue_active(c) ==
    /\ pc[c] = "put_active"
    /\ pc' = [pc EXCEPT ![c] = IF workmem_wait # <<>> THEN "put_wake" ELSE "out"]
    /\ UNCHANGED <<mvars, alloc, pressure, pvars, wm, tstate, issued, called,
                   oneShot, svars>>

\* wake_up(q): the tasks woken, walking the queue from its head: a task is
\* woken if it is not already runnable, and the walk stops after the first
\* exclusive waiter woken (every waiter here is exclusive).
RECURSIVE wake_up(_, _)
wake_up(q, ts) ==
    IF q = <<>> THEN {}
    ELSE IF ts[Head(q)] # "RUNNING" THEN {Head(q)}
    ELSE wake_up(Tail(q), ts)

\* put_wake_up with wake_up_all: every queued caller is woken.
put_wake_up_all(c) ==
    /\ pc[c] = "put_wake"
    /\ tstate' = [t \in Callers |->
                   IF \E k \in 1..Len(workmem_wait) : workmem_wait[k] = t
                   THEN "RUNNING" ELSE tstate[t]]
    /\ workmem_wait' = <<>>
    /\ pc' = [pc EXCEPT ![c] = "out"]
    /\ UNCHANGED <<mvars, alloc, pressure, buffer_lock, idle_workmem,
                   wm, issued, called, oneShot, svars>>

\* put_wake_up that waits until there is a caller to wake.
put_wake_up_waits(c) ==
    /\ pc[c] = "put_wake"
    /\ workmem_wait # <<>>
    /\ tstate' = [tstate EXCEPT ![Head(workmem_wait)] = "RUNNING"]
    /\ workmem_wait' = Tail(workmem_wait)
    /\ pc' = [pc EXCEPT ![c] = "out"]
    /\ UNCHANGED <<mvars, alloc, pressure, buffer_lock, idle_workmem,
                   wm, issued, called, oneShot, svars>>

\* put, line 118: wake_up(&policy->workmem_wait).  A woken task is made
\* runnable and taken off the queue (autoremove_wake_function).
put_wake_up(c) ==
    /\ pc[c] = "put_wake"
    /\ LET woken == wake_up(workmem_wait, tstate)
       IN  /\ tstate' = [t \in Callers |->
                            IF t \in woken THEN "RUNNING" ELSE tstate[t]]
           /\ workmem_wait' = SelectSeq(workmem_wait, LAMBDA w : w \notin woken)
    /\ pc' = [pc EXCEPT ![c] = "out"]
    /\ UNCHANGED <<mvars, alloc, pressure, buffer_lock, idle_workmem,
                   wm, issued, called, oneShot, svars>>

\* The steps a caller takes inside get and put.
GetStep(c) ==
    \/ get_spin_lock(c)
    \/ get_locked(c)
    \/ get_prepare_to_wait(c)
    \/ get_recheck(c)
    \/ get_schedule(c)
    \/ get_finish_wait(c)

PutStep(c) ==
    \/ put_spin_lock(c)
    \/ put_add_tail(c)
    \/ put_waitqueue_active(c)
    \/ put_wake_up(c)

Next ==
    \/ Manage
    \/ \E c \in Callers : get_call(c) \/ put_call(c) \/ GetStep(c) \/ PutStep(c)

Spec == Init /\ [][Next]_vars

\* Scheduling: a caller inside get or put, or holding a unit, keeps taking
\* steps while it can (a runnable task is run, and a holder puts its unit
\* back).  Nothing obliges a caller outside to call get, nor the
\* management thread to act.
CallerRun(c) == put_call(c) \/ GetStep(c) \/ PutStep(c)

\* buffer_lock is a fair (ticket) spinlock: a caller spinning on it gets it
\* although the lock is taken and released by others in between, hence
\* strong fairness.  Every other step of a caller stays enabled until it
\* is taken.
Fairness == \A c \in Callers : SF_vars(CallerRun(c))

\* The state after a successful zcomp_create("lzo"): the handle and the
\* unit allocated, the unit on the idle list.
InitLive ==
    /\ mpc = "returned"
    /\ req = lzo
    /\ comp = [name |-> lzo, create |-> "zcomp_lzo_create",
               destroy |-> "zcomp_lzo_destroy"]
    /\ zret = "comp"
    /\ inCreate = FALSE
    /\ initRet = "0"
    /\ ctorCalls = 1
    /\ dtorCalls = 0
    /\ base = 0
    /\ failed = {}
    /\ alloc = [r \in Regions |-> "live"]
    /\ pressure = FALSE
    /\ buffer_lock = 0
    /\ idle_workmem = <<"wm">>
    /\ workmem_wait = <<>>
    /\ pc = [c \in Callers |-> "out"]
    /\ wm = [c \in Callers |-> NULL]
    /\ tstate = [c \in Callers |-> "RUNNING"]
    /\ issued = FALSE
    /\ called = [c \in Callers |-> FALSE]
    /\ showArg = NoComp
    /\ showBuf = <<>>
    /\ showRet = 0

\* The callers alone, on a live backend.
PoolNext ==
    \E c \in Callers : get_call(c) \/ put_call(c) \/ GetStep(c) \/ PutStep(c)

\* Callers that call get without bound.
InitRepeat == InitLive /\ oneShot = FALSE

FairSpec == InitRepeat /\ [][PoolNext]_vars /\ Fairness

\* Callers that each call get once.
InitOneShot == InitLive /\ oneShot = TRUE

OneShotFairSpec ==
    InitOneShot /\ [][PoolNext]_vars
    /\ \A c \in Callers : WF_vars(CallerRun(c))

InGet(c) == pc[c] \in GetPcs
Holding(c) == pc[c] = "holding"

\* A caller is suspended: inside schedule() and not runnable.
Suspended(c) == pc[c] = "get_schedule" /\ tstate[c] = "UNINTERRUPTIBLE"

\* The callers a unit is checked out to.
Holders(u) == {c \in Callers : wm[c] = u}

\* The pool is in use: wm_policy_init has returned 0 and wm_policy_free has
\* not run yet.
PoolUp == initRet = "0" /\ mpc \notin {"kfree", "done"}

RECURSIVE Count(_, _)
Count(q, u) ==
    IF q = <<>> THEN 0
    ELSE (IF Head(q) = u THEN 1 ELSE 0) + Count(Tail(q), u)

\* ---------------------------------------------------------------- claims

\* C1: in every interleaving of get and put, no two callers hold the same
\* workmem unit at the same time.
C1_MutualExclusion ==
    \A c, d \in Callers :
        (c # d /\ wm[c] # NULL) => wm[d] # wm[c]

\* C1 witness: one caller holds the unit while another is inside get with
\* the lock, looking at the idle list.
C1_Witness ==
    \E c, d \in Callers :
        c # d /\ Holding(c) /\ wm[c] = "wm" /\ pc[d] = "get_locked"

\* C2: between a successful wm_policy_init and wm_policy_free the allocated
\* unit is on the idle list exactly once or checked out to exactly one
\* caller, never both and never neither, and idle plus checked-out units
\* number what init allocated (one), whatever get and put have done.
C2_UnitAccounting ==
    PoolUp =>
        /\ alloc["wm"] = "live"
        /\ Count(idle_workmem, "wm") + Cardinality(Holders("wm")) = 1
        /\ Len(idle_workmem) + Cardinality({c \in Callers : wm[c] # NULL}) = 1

\* C2 witness: the unit is back on the idle list after a put, while a
\* caller that waited for it is still on its way to take it.
C2_Witness ==
    /\ PoolUp
    /\ idle_workmem = <<"wm">>
    /\ \E c, d \in Callers : pc[c] = "put_active" /\ pc[d] = "get_finish"

\* C3: get never returns NULL or an error: the only step that leaves get
\* is the one that, under the lock, found the idle list non-empty, removed
\* its head and returns it; on an empty list get stays inside (it goes to
\* wait and retries).
C3_GetNeverFails ==
    [][\A c \in Callers :
         (InGet(c) /\ ~InGet(c)') =>
             /\ pc[c] = "get_locked"
             /\ buffer_lock = c
             /\ idle_workmem # <<>>
             /\ wm'[c] = Head(idle_workmem)
             /\ wm'[c] # NULL
             /\ idle_workmem' = Tail(idle_workmem)
             /\ Holding(c)']_vars

\* C3 witness: one caller has returned from get with the unit while
\* another found the list empty and went to wait instead of returning.
C3_Witness ==
    \E c, d \in Callers :
        Holding(c) /\ wm[c] = "wm" /\ pc[d] = "get_prepare"
\* C4: callers that each call get once and put the unit back: under fair
\* scheduling every call of get returns (with M waiters and M releases all
\* M complete; no caller stays in get forever while the unit is idle).
C4_EveryGetReturns == \A c \in Callers : InGet(c) ~> Holding(c)

\* C4 witness: all callers but the holder are suspended at the same time.
C4_Witness ==
    /\ oneShot
    /\ Cardinality({c \in Callers : Suspended(c)}) = NumCallers - 1
    /\ \E c \in Callers : Holding(c)

\* The woken callers of a step: suspended before it, no longer after it.
WokenSuspended == {w \in Callers : Suspended(w) /\ ~Suspended(w)'}

\* C5 as stated: the wake_up of a put that runs while a caller is
\* suspended wakes exactly one of the suspended callers.
C5_Original ==
    [][\A c \in Callers :
         (pc[c] = "put_wake" /\ pc'[c] = "out" /\ \E w \in Callers : Suspended(w))
             => Cardinality(WokenSuspended) = 1]_vars

\* C5 amended: the wake_up of a put wakes the caller at the head of the
\* wait queue and no other (that caller has queued itself and may not be
\* suspended yet); an empty queue wakes nobody; every other caller keeps
\* its task state and its place in the queue, and a suspended caller stops
\* being suspended only by the wake_up of a put.
C5_WakesHeadOnly ==
    [][/\ \A c \in Callers :
            (pc[c] = "put_wake" /\ pc'[c] = "out") =>
                IF workmem_wait = <<>>
                THEN UNCHANGED <<tstate, workmem_wait>>
                ELSE /\ tstate' = [tstate EXCEPT ![Head(workmem_wait)] = "RUNNING"]
                     /\ workmem_wait' = Tail(workmem_wait)
       /\ \A w \in Callers :
            (Suspended(w) /\ ~Suspended(w)') =>
                /\ \E c \in Callers : pc[c] = "put_wake" /\ pc'[c] = "out"
                /\ w = Head(workmem_wait)]_vars

\* C5 witness: a wake_up has just made one suspended caller runnable and
\* another caller is still suspended.
C5_Witness ==
    \E w, v \in Callers :
        /\ pc[w] = "get_schedule" /\ tstate[w] = "RUNNING"
        /\ Suspended(v)

\* C6 as stated: under fair scheduling every caller waiting in get
\* eventually obtains a unit, with callers that call get without end.
C6_Original == \A c \in Callers : InGet(c) ~> (Holding(c) /\ wm[c] = "wm")

\* C6 amended: under fair scheduling a caller waits in get forever only if
\* other callers obtain the unit again and again without end: a waiter can
\* be overtaken indefinitely, but it never waits while nobody else is
\* served.
C6_StarvedOnlyByOvertaking ==
    \A c \in Callers :
        \/ []<>(~InGet(c))
        \/ []<>(\E d \in Callers \ {c} : Holding(d))

\* C6 witness: a caller woken by a put finds that another caller has
\* already taken the unit.
C6_Witness ==
    \E c, d \in Callers :
        /\ c # d
        /\ pc[c] = "get_finish" /\ tstate[c] = "RUNNING"
        /\ idle_workmem = <<>>
        /\ Holding(d)
\* C7: only get suspends its caller, and only after the check of line 100
\* found the idle list empty; a caller in put is always runnable, and each
\* step of put can be taken whatever the idle list and the wait queue
\* hold: it needs nothing but buffer_lock for its spin_lock.
C7_OnlyGetSuspends ==
    [][/\ \A c \in Callers :
            /\ tstate[c] # "RUNNING" =>
                   pc[c] \in {"get_recheck", "get_schedule", "get_finish"}
            /\ (pc[c] # "get_schedule" /\ pc'[c] = "get_schedule") =>
                   (pc[c] = "get_recheck" /\ idle_workmem = <<>>)
            /\ (pc[c] \in PutPcs /\ (pc[c] = "put_lock" => buffer_lock = 0)) =>
                   (tstate[c] = "RUNNING" /\ ENABLED PutStep(c))]_vars

\* C7 witness: a put is at its wake_up although the wait queue has emptied
\* meanwhile, with the unit idle and another caller inside get.
C7_Witness ==
    \E c, d \in Callers :
        /\ pc[c] = "put_wake"
        /\ workmem_wait = <<>>
        /\ idle_workmem # <<>>
        /\ InGet(d)

\* The positions of get after the idle list was found empty.
WaitPcs == {"get_prepare", "get_recheck", "get_schedule", "get_finish"}

\* Until a unit has been handed out for the first time, the unit init
\* allocated is on the idle list and no caller has had to wait.
FirstGetReady ==
    (PoolUp /\ ~issued) =>
        /\ idle_workmem = <<"wm">>
        /\ \A c \in Callers : pc[c] \notin WaitPcs

\* C8: after wm_policy_init returned 0 the first get finds the unit on the
\* idle list and returns it without waiting, memory pressure or not, and
\* no step of get or put allocates (or frees) anything.
C8_FirstGetNeverWaits ==
    [][/\ FirstGetReady
       /\ FirstGetReady'
       /\ (\E c \in Callers : pc'[c] # pc[c]) => alloc' = alloc]_vars

\* C8 witness: under memory pressure the first get holds the lock in front
\* of the unit init allocated.
C8_Witness ==
    /\ pressure
    /\ PoolUp
    /\ ~issued
    /\ \E c \in Callers : pc[c] = "get_locked"

\* C9: when wm_policy_init has returned, it returned 0 exactly when no
\* allocation failed, and then the idle list holds exactly one unit whose
\* descriptor, scratch and output buffer are allocated; otherwise it
\* returned an error, the idle list is empty and nothing of the unit is
\* left allocated.
C9_InitAllOrNothing ==
    mpc = "ctor_ret" =>
        /\ initRet \in {"0", "-EINVAL"}
        /\ initRet = "0" <=> failed = {}
        /\ initRet = "0" <=>
               /\ idle_workmem = <<"wm">>
               /\ \A r \in {"wm", "mem", "buf"} : alloc[r] = "live"
        /\ initRet # "0" =>
               /\ idle_workmem = <<>>
               /\ \A r \in {"wm", "mem", "buf"} : alloc[r] # "live"

\* C9 witness: init has returned an error after the output buffer alone
\* could not be allocated.
C9_Witness ==
    /\ mpc = "ctor_ret"
    /\ failed = {"buf"}
    /\ initRet = "-EINVAL"

\* A name that matches no entry of the compressors table.
NoMatch(name) ==
    \A k \in 1..Len(compressors) : ~sysfs_streq(name, compressors[k].name)

\* C10: zcomp_create with a name that matches no entry of compressors
\* returns NULL, has allocated no handle, has called no backend
\* constructor or destructor, and leaves the outstanding allocation count
\* as it was.
C10_UnknownNameNoResidue ==
    (mpc = "returned" /\ NoMatch(req)) =>
        /\ zret = NULL
        /\ comp = NoComp
        /\ alloc["comp"] # "live"
        /\ ctorCalls = 0
        /\ dtorCalls = 0
        /\ Outstanding(alloc) = base

\* C10 witness: zcomp_create has returned for a name that is a proper
\* prefix of a registered one.
C10_Witness ==
    /\ mpc = "returned"
    /\ req = <<"l", "z">>
    /\ zret = NULL

\* C11: when the backend constructor has failed, zcomp_create returns NULL
\* and the handle it allocated has been freed exactly once by then: the
\* caller gets no handle and nothing of the call is left allocated.
C11_FailedCtorFreesHandle ==
    (mpc = "returned" /\ initRet = "-EINVAL") =>
        /\ zret = NULL
        /\ comp = NoComp
        /\ alloc["comp"] = "freed"
        /\ Outstanding(alloc) = base

\* C11 witness: zcomp_create has returned after the constructor failed on
\* the scratch buffer.
C11_Witness ==
    /\ mpc = "returned"
    /\ initRet = "-EINVAL"
    /\ ctorCalls = 1
    /\ failed = {"mem"}
    /\ alloc["comp"] = "freed"

\* C12: a handle zcomp_create returns carries the name, create and destroy
\* of the table entry the requested name matches; once zcomp_destroy has
\* run on it, with every unit returned to the pool, as many allocations
\* are outstanding as before the create, and nothing was freed twice.
C12_CreateDestroyRoundTrip ==
    /\ Live =>
           \E k \in 1..Len(compressors) :
               /\ sysfs_streq(req, compressors[k].name)
               /\ comp.name = compressors[k].name
               /\ comp.create = compressors[k].create
               /\ comp.destroy = compressors[k].destroy
    /\ (mpc = "done" /\ \A c \in Callers : wm[c] = NULL) =>
           /\ Outstanding(alloc) = base
           /\ \A r \in Regions : alloc[r] = "freed"

\* C12 witness: a handle created as "lz4\n" has been destroyed after its
\* unit was handed out and put back.
C12_Witness ==
    /\ mpc = "done"
    /\ req = <<"l", "z", "4", "\n">>
    /\ issued
    /\ \A c \in Callers : wm[c] = NULL

\* The regions of a workmem unit.
UnitRegions == {"wm", "mem", "buf"}

\* C13: when wm_policy_free has run with every unit returned, the idle
\* list is empty and no region of the unit is left allocated or was freed
\* twice; a unit that wm_policy_init had allocated has its descriptor,
\* scratch and output buffer freed exactly once, however many get/put
\* cycles ran in between.
C13_FreeReleasesEveryUnit ==
    (mpc = "kfree" /\ \A c \in Callers : wm[c] = NULL) =>
        /\ idle_workmem = <<>>
        /\ \A r \in UnitRegions : alloc[r] \in {"none", "freed"}
        /\ initRet = "0" => \A r \in UnitRegions : alloc[r] = "freed"

\* C13 witness: wm_policy_free has just run on a pool whose unit was handed
\* out and put back.
C13_Witness ==
    /\ mpc = "kfree"
    /\ initRet = "0"
    /\ issued
    /\ \A c \in Callers : wm[c] = NULL
    /\ alloc["mem"] = "freed"

\* The words of a text: its maximal runs of characters other than space
\* and newline, in order.
RECURSIVE Words(_, _)
Words(s, w) ==
    IF s = <<>> THEN (IF w = <<>> THEN <<>> ELSE <<w>>)
    ELSE IF Head(s) \in {" ", "\n"}
         THEN (IF w = <<>> THEN <<>> ELSE <<w>>) \o Words(Tail(s), <<>>)
         ELSE Words(Tail(s), Append(w, Head(s)))

\* How many times character ch occurs in text s.
Occurs(s, ch) == Cardinality({k \in 1..Len(s) : s[k] = ch})

\* C14: a call of zcomp_available_show, with NULL or with a handle, leaves
\* comp and everything else but its output as it was; the text it wrote
\* is the table's names in table order, each followed by one space, the
\* name equal to comp->name (none when comp is NULL) in angle brackets and
\* the others bare; the text ends with its only newline, and the value
\* returned is the length of the text.
C14_ListingFormat ==
    [][<<showArg, showBuf, showRet>>' # <<showArg, showBuf, showRet>> =>
         /\ comp' = comp
         /\ showArg' = comp
         /\ UNCHANGED <<mvars, alloc, pressure, pvars, cvars>>
         /\ LET w == Words(showBuf', <<>>)
            IN  /\ Len(w) = Len(compressors)
                /\ \A k \in 1..Len(compressors) :
                       w[k] = IF comp # NoComp /\ comp.name = compressors[k].name
                              THEN <<"<">> \o compressors[k].name \o <<">">>
                              ELSE compressors[k].name
                /\ comp = NoComp =>
                       Occurs(showBuf', "<") + Occurs(showBuf', ">") = 0
         /\ Occurs(showBuf', " ") = Len(compressors)
         /\ Occurs(showBuf', "\n") = 1
         /\ showBuf'[Len(showBuf')] = "\n"
         /\ showRet' = Len(showBuf')]_vars

\* C14 witness: the listing was made with the lz4 handle and shows lz4 in
\* brackets after lzo.
C14_Witness ==
    /\ showArg.name = lz4
    /\ showRet = 11
    /\ showBuf = <<"l", "z", "o", " ", "<", "l", "z", "4", ">", " ", "\n">>

\* Letter case folded, for the letters the names are made of.
Lower(ch) ==
    CASE ch = "L" -> "l"
      [] ch = "Z" -> "z"
      [] ch = "O" -> "o"
      [] OTHER -> ch

ToLower(s) == [k \in 1..Len(s) |-> Lower(s[k])]

\* A text without its trailing spaces and newlines.
RECURSIVE Trim(_)
Trim(s) ==
    IF s # <<>> /\ s[Len(s)] \in {" ", "\n"}
    THEN Trim(SubSeq(s, 1, Len(s) - 1))
    ELSE s

\* Case-insensitive trim-compare.
CaseTrimEq(s1, s2) == ToLower(Trim(s1)) = ToLower(Trim(s2))

\* C15 as stated: the lookup of zcomp_create goes on to allocate a handle
\* of entry k exactly for the names that equal entry k's name up to letter
\* case and trailing whitespace, and rejects every other name.
C15_Original ==
    [][(mpc = "idle" /\ mpc' # "idle") =>
         /\ \A k \in 1..Len(compressors) :
                CaseTrimEq(req', compressors[k].name) =>
                    mpc' = "kzalloc" /\ zcomp_lookup(req', 1) = k
         /\ (\A k \in 1..Len(compressors) :
                 ~CaseTrimEq(req', compressors[k].name)) =>
                mpc' = "returned" /\ zret' = NULL]_vars

\* C15: the lookup of zcomp_create goes on to allocate a handle of entry k
\* exactly for entry k's name, character for character, and for that name
\* followed by a single newline; it rejects every other name, among them
\* names that differ in letter case or carry a trailing space or a second
\* newline.
C15_ExactOrOneNewline ==
    [][(mpc = "idle" /\ mpc' # "idle") =>
         /\ \A k \in 1..Len(compressors) :
                (req' = compressors[k].name
                 \/ req' = compressors[k].name \o <<"\n">>) =>
                    mpc' = "kzalloc" /\ zcomp_lookup(req', 1) = k
         /\ (\A k \in 1..Len(compressors) :
                 /\ req' # compressors[k].name
                 /\ req' # compressors[k].name \o <<"\n">>) =>
                mpc' = "returned" /\ zret' = NULL]_vars

\* C15 witness: the name in capitals has been rejected by the lookup.
C15_Witness ==
    /\ mpc = "returned"
    /\ req = <<"L", "Z", "O">>
    /\ zret = NULL
    /\ alloc["comp"] = "none"

\* The regions of the unit a call of workmem_alloc gets from the
\* allocator: the descriptor if kmalloc succeeds, and then each buffer
\* whose vmalloc succeeds (without the descriptor no buffer is asked for).
Obtained(okWm, okMem, okBuf) ==
    {r \in UnitRegions : /\ okWm
                         /\ r = "mem" => okMem
                         /\ r = "buf" => okBuf}

\* C16: whichever of the three allocations of workmem_alloc fail, it
\* returns NULL exactly when at least one failed, and then each region it
\* had obtained is freed exactly once and the others are NULL; when none
\* fails all three regions are allocated and none is freed.  The handle
\* is not touched.
C16_AllocLeaksNothing ==
    mpc = "ctor" =>
        \A okWm, okMem, okBuf \in BOOLEAN :
            LET r == workmem_alloc(alloc, okWm, okMem, okBuf)
            IN  /\ r.ret = NULL <=> ~(okWm /\ okMem /\ okBuf)
                /\ r.ret = NULL =>
                       \A x \in UnitRegions :
                           r.heap[x] = IF x \in Obtained(okWm, okMem, okBuf)
                                       THEN "freed" ELSE "none"
                /\ r.ret # NULL =>
                       \A x \in UnitRegions : r.heap[x] = "live"
                /\ r.heap["comp"] = alloc["comp"]

\* C16 witness: the constructor's workmem_alloc has failed on the scratch
\* buffer after it got the descriptor and the output buffer, and both are
\* freed.
C16_Witness ==
    /\ mpc = "ctor_ret"
    /\ failed = {"mem"}
    /\ alloc["wm"] = "freed"
    /\ alloc["buf"] = "freed"
    /\ alloc["mem"] = "none"

\* C17: a caller in the wait branch of get never leaves get from there and
\* never has a unit: after schedule() (or the skipped sleep) it does
\* finish_wait and goes back to retry, takes buffer_lock when it is free,
\* and looks at the idle list under the lock; if the list is empty again
\* it queues itself once more and, the list still being empty, sleeps.
\* Get returns only from the locked branch that found the list non-empty,
\* with the head it removed.
C17_WokenCallerRechecks ==
    [][\A c \in Callers :
         /\ pc'[c] \in WaitPcs => wm'[c] = NULL
         /\ (pc[c] \in {"get_recheck", "get_schedule"} /\ pc'[c] # pc[c]) =>
                pc'[c] \in {"get_schedule", "get_finish"}
         /\ (pc[c] = "get_recheck" /\ pc'[c] # pc[c]) =>
                (pc'[c] = "get_schedule" <=> idle_workmem = <<>>)
         /\ (pc[c] = "get_finish" /\ pc'[c] # pc[c]) =>
                pc'[c] = "get_lock" /\ Count(workmem_wait', c) = 0
         /\ (pc[c] = "get_lock" /\ pc'[c] # pc[c]) =>
                pc'[c] = "get_locked" /\ buffer_lock = 0 /\ buffer_lock' = c
         /\ (pc[c] = "get_locked" /\ pc'[c] # pc[c] /\ idle_workmem = <<>>) =>
                pc'[c] = "get_prepare"
         /\ (pc[c] = "get_prepare" /\ pc'[c] # pc[c]) =>
                /\ pc'[c] = "get_recheck"
                /\ Count(workmem_wait', c) = 1
                /\ tstate'[c] = "UNINTERRUPTIBLE"
         /\ (pc'[c] = "holding" /\ pc[c] # "holding") =>
                /\ pc[c] = "get_locked"
                /\ buffer_lock = c
                /\ idle_workmem # <<>>
                /\ wm'[c] = Head(idle_workmem)
                /\ idle_workmem' = Tail(idle_workmem)]_vars

\* C17 witness: a caller that a wake_up took off the wait queue is about
\* to retry, while the unit it was woken for is already checked out to
\* another caller and the idle list is empty.
C17_Witness ==
    \E c, d \in Callers :
        /\ c # d
        /\ pc[c] = "get_finish"
        /\ Count(workmem_wait, c) = 0
        /\ tstate[c] = "RUNNING"
        /\ idle_workmem = <<>>
        /\ Holding(d)

\* The callers between spin_lock and spin_unlock of get or put.
InLocked == {c \in Callers : pc[c] \in {"get_locked", "put_add"}}

\* C18: a step of get or put that changes the idle list is taken by the
\* caller that holds buffer_lock, in its locked section; at most one
\* caller is in a locked section and it is the holder of buffer_lock; a
\* caller that queues itself on the wait queue, is queued, or is suspended
\* does not hold buffer_lock.  (The test of the list before schedule() is
\* made without the lock and changes nothing.)
C18_ListChangesUnderLock ==
    [][/\ (idle_workmem' # idle_workmem /\ mpc' = mpc) =>
              \E c \in InLocked :
                  /\ buffer_lock = c
                  /\ pc'[c] # pc[c]
                  /\ \A d \in Callers \ {c} : pc'[d] = pc[d]
       /\ Cardinality(InLocked') <= 1
       /\ \A c \in Callers : c \in InLocked' <=> buffer_lock' = c
       /\ \A c \in Callers :
              Count(workmem_wait', c) > Count(workmem_wait, c) =>
                  buffer_lock # c /\ buffer_lock' # c
       /\ \A c \in Callers :
              (Count(workmem_wait', c) > 0 \/ Suspended(c)') =>
                  buffer_lock' # c
       /\ \A c \in Callers :
              (pc[c] = "get_recheck" /\ pc'[c] # pc[c]) =>
                  buffer_lock # c /\ idle_workmem' = idle_workmem]_vars

\* C18 witness: one caller is adding its unit to the idle list under the
\* lock while another, queued and without the lock, is at the test of the
\* list before schedule().
C18_Witness ==
    \E c, d \in Callers :
        /\ pc[c] = "put_add"
        /\ buffer_lock = c
        /\ pc[d] = "get_recheck"
        /\ Count(workmem_wait, d) = 1

\* C19: a region of an allocated unit is freed only in the step of
\* wm_policy_free, and then the unit was on the idle list and checked out
\* to nobody; as long as a caller has the unit checked out, also after
\* teardown, its three regions stay allocated, and teardown does not put
\* it back on the idle list.
C19_CheckedOutUnitSurvives ==
    [][/\ (\E r \in UnitRegions : alloc[r] = "live" /\ alloc'[r] # "live") =>
              /\ mpc = "dtor"
              /\ mpc' = "kfree"
              /\ idle_workmem = <<"wm">>
              /\ Holders("wm") = {}
       /\ (Holders("wm") # {} /\ mpc = "dtor") =>
              /\ alloc' = alloc
              /\ idle_workmem' = <<>>
              /\ wm' = wm
       /\ Holders("wm")' # {} =>
              /\ \A r \in UnitRegions : alloc'[r] = "live"
              /\ mpc' \in {"kfree", "done"} => idle_workmem' = <<>>]_vars

\* C19 witness: the backend has been destroyed while a caller had the unit
\* checked out; the unit is still allocated and on no list.
C19_Witness ==
    /\ mpc = "done"
    /\ \E c \in Callers : wm[c] = "wm"
    /\ \A r \in UnitRegions : alloc[r] = "live"
    /\ alloc["comp"] = "freed"
    /\ idle_workmem = <<>>

\* C20: the handle is freed only by the kfree of zcomp_destroy, after the
\* backend destructor has run once on it, and it is freed once; the
\* destructor runs only on an allocated handle that it has not run on
\* before, and the kfree follows it.  A failed constructor leads to the
\* destructor; when zcomp_destroy is over, from zcomp_create's error path
\* or from its caller, the destructor has run exactly once and the handle
\* is freed exactly once.
C20_DestructorThenFree ==
    [][/\ (alloc["comp"] = "live" /\ alloc'["comp"] # "live") =>
              /\ mpc = "kfree"
              /\ dtorCalls = 1
              /\ alloc'["comp"] = "freed"
       /\ dtorCalls' > dtorCalls =>
              /\ mpc = "dtor"
              /\ mpc' = "kfree"
              /\ dtorCalls = 0
              /\ comp # NoComp
              /\ comp' = comp
              /\ alloc["comp"] = "live"
              /\ alloc'["comp"] = "live"
       /\ (mpc = "ctor_ret" /\ initRet # "0" /\ mpc' # mpc) =>
              mpc' = "dtor" /\ ctorCalls = 1
       /\ (mpc = "dtor" /\ mpc' # mpc) => dtorCalls' = dtorCalls + 1
       /\ (mpc = "kfree" /\ mpc' # mpc) =>
              /\ dtorCalls' = 1
              /\ alloc'["comp"] = "freed"
              /\ inCreate => mpc' = "returned" /\ zret' = NULL]_vars

\* C20 witness: in zcomp_create's error path the destructor has run on the
\* handle whose construction failed, and the handle is about to be freed.
C20_Witness ==
    /\ mpc = "kfree"
    /\ inCreate
    /\ initRet = "-EINVAL"
    /\ dtorCalls = 1
    /\ alloc["comp"] = "live"

=============================================================================
